---- MODULE Spec2Model ----
(***************************************************************************)
(* State-machine model of the GraphQL student/course API (src/index.js,    *)
(* second server, lines 135-513, with the schemas of src/models).          *)
(*                                                                         *)
(* Every resolver is an async function: it runs without preemption        *)
(* between awaits, and each store call it awaits takes effect atomically.  *)
(* One action of the model is the effect of one awaited store call,        *)
(* together with the synchronous code of the resolver around it (which     *)
(* reads only the resolver's own locals); requests interleave between      *)
(* actions, that is at every await.                                        *)
(*                                                                         *)
(* Store calls are modelled by what Mongoose documents for them:           *)
(*   findById / findOne   read one document (or null);                     *)
(*   new Model(x).save()  validates against the schema, then inserts,      *)
(*                        the unique index rejecting an equal key;         *)
(*   doc.save()           on a loaded document sends the atomic array      *)
(*                        operation recorded on it ($push / $pullAll) and  *)
(*                        throws when the document no longer exists;       *)
(*   findByIdAndUpdate    $set of the given fields, no schema validators;  *)
(*   updateMany $pull     removes the id from every document's array;      *)
(*   deleteOne            removes the document if it is there.             *)
(* Name, major, title and instructor are not read by any guard and are     *)
(* left out of the documents, as is Mongoose's version key.  Ids are       *)
(* store-assigned and never reused.                                        *)
(***************************************************************************)
EXTENDS Integers, Sequences, FiniteSets, TLC

\* ---------------------------------------------------------------- bounds
MaxStudents == 1
MaxCourses == 2
NProcs == 2
MaxMatching == 60

\* ------------------------------------------------------ program constants
MinAge == 16
MinCredits == 1
MaxCredits == 6
DefaultLimit == 10
MaxLimit == 50
MinPasswordLength == 6

SIds == 1..MaxStudents
CIds == 1..MaxCourses
Procs == 1..NProcs

VARIABLES
  students,   \* Student collection: SIds -> document or NoDoc
  courses,    \* Course collection: CIds -> document or NoDoc
  usedS,      \* number of Student ids the store has assigned
  usedC,      \* number of Course ids the store has assigned
  req,        \* Procs -> the resolver invocation in flight in that slot
  last,       \* outcome of the request the last step completed
  failed,     \* a persist call of some request has thrown
  users,      \* the in-memory users list
  auth,       \* Procs -> the signup invocation in flight in that slot
  lastAuth,   \* outcome of the signup / login the last step completed
  query       \* the last getAllStudents / getAllCourses call and its result

vars == <<students, courses, usedS, usedC, req, last, failed, users, auth, lastAuth, query>>
storeVars == <<students, courses, usedS, usedC>>
authVars == <<users, auth, lastAuth>>

\* ------------------------------------------------------------ strings
\* A string is the sequence of its characters.
includes(str, ch) == \E i \in 1..Len(str) : str[i] = ch

LowerChar(ch) ==
  CASE ch = "A" -> "a"
    [] ch = "B" -> "b"
    [] ch = "X" -> "x"
    [] OTHER -> ch

toLowerCase(str) == [i \in 1..Len(str) |-> LowerChar(str[i])]

Emails == { <<"a", "@", "x">>, <<"A", "@", "x">>, <<"b", "@", "x">>, <<"a", "x">> }
Codes == { <<"c", "s", "1">>, <<"C", "S", "1">>, <<"c", "s", "2">> }

\* ------------------------------------------------------------ documents
NoDoc == [none |-> TRUE]
NoSnap == [nosnap |-> TRUE]
NoLast == [nolast |-> TRUE]
Null == [null |-> TRUE]
Idle == [pc |-> "idle"]

StudentDocs == { s \in SIds : students[s] # NoDoc }
CourseDocs == { c \in CIds : courses[c] # NoDoc }

\* MongooseArray.includes / push / pull on an id array.
ArrIncludes(arr, id) == \E i \in 1..Len(arr) : arr[i] = id

\* Mutant of ArrPull: only the first occurrence is removed.
ArrPullFirst(arr, id) ==
  IF ~ArrIncludes(arr, id) THEN arr
  ELSE LET k == CHOOSE i \in 1..Len(arr) :
                  arr[i] = id /\ \A j \in 1..(i - 1) : arr[j] # id
       IN SubSeq(arr, 1, k - 1) \o SubSeq(arr, k + 1, Len(arr))

ArrPull(arr, id) == SelectSeq(arr, LAMBDA x : x # id)
Count(arr, id) == Cardinality({ i \in 1..Len(arr) : arr[i] = id })

\* What doc.save() sends for the array: the atomic operation recorded by
\* push ($push) or pull ($pullAll), applied to the stored array.
ApplyAtomic(stored, atomic, id) ==
  CASE atomic = "push" -> Append(stored, id)
    [] atomic = "pull" -> ArrPull(stored, id)
    [] OTHER -> stored

\* ------------------------------------------------------------ token
\* An Authorization header: a prefix and a token of one kind; NoHeader is
\* the empty string the context function passes for a missing header.
NoHeader == [prefix |-> "", token |-> "none"]
Headers ==
  { NoHeader,
    [prefix |-> "Bearer ", token |-> "valid"],
    [prefix |-> "", token |-> "valid"],
    [prefix |-> "bearer ", token |-> "valid"],
    [prefix |-> "Bearer ", token |-> "expired"],
    [prefix |-> "Bearer ", token |-> "badsig"],
    [prefix |-> "Bearer ", token |-> "malformed"] }
Claims == [id |-> 1]

\* jwt.verify: the claims of a well-formed, well-signed, unexpired token;
\* throws otherwise.
JwtVerifies(prefix, token) == prefix = "" /\ token = "valid"

\* getUserFromToken: null for no header, else strip "Bearer " and verify,
\* null when verification throws.
getUserFromToken(authHeader) ==
  IF authHeader = NoHeader THEN Null
  ELSE LET rest == IF authHeader.prefix = "Bearer " THEN "" ELSE authHeader.prefix
       IN IF JwtVerifies(rest, authHeader.token) THEN Claims ELSE Null

\* Mutant of Authenticated: the gate left out.
AuthenticatedNoGate(user) == TRUE

\* if (!user) throw new Error("UNAUTHENTICATED")
Authenticated(user) == user # Null

\* ------------------------------------------------------------ requests
Snapshot == [students |-> students, courses |-> courses]
OthersIdle(p) == \A q \in Procs \ {p} : req[q] = Idle

\* A request beginning while another is in flight: that one no longer runs
\* alone.
Disturb(r) == IF r = Idle THEN r ELSE [r EXCEPT !.alone = FALSE, !.pre = NoSnap]

\* The invocation record of a request beginning in slot p.
NewReq(p, op, sid, cid, input, header) ==
  [pc |-> "begin", op |-> op, sid |-> sid, cid |-> cid, input |-> input,
   header |-> header, user |-> getUserFromToken(header),
   doc |-> NoDoc, satomic |-> "none", catomic |-> "none",
   alone |-> OthersIdle(p), pre |-> IF OthersIdle(p) THEN Snapshot ELSE NoSnap,
   accesses |-> 0]

Outcome(r, result) ==
  [op |-> r.op, sid |-> r.sid, cid |-> r.cid, input |-> r.input, header |-> r.header,
   user |-> r.user, result |-> result,
   alone |-> r.alone, pre |-> r.pre, accesses |-> r.accesses]

\* The errors a persist call (save, findByIdAndUpdate) throws.
PersistErrors == {"DocumentNotFoundError", "ValidationError", "E11000 duplicate key"}

\* The request in slot p goes on to its next await.
Continue(p, r, begins) ==
  /\ req' = [q \in Procs |-> IF q = p THEN r
                             ELSE IF begins THEN Disturb(req[q]) ELSE req[q]]
  /\ last' = NoLast
  /\ failed' = failed

\* The request in slot p returns or throws.  A request that begins and ends
\* in one step is atomic: it ran alone, from the store as it was.
Complete(p, r, result, begins) ==
  /\ req' = [q \in Procs |-> IF q = p THEN Idle
                             ELSE IF begins THEN Disturb(req[q]) ELSE req[q]]
  /\ last' = Outcome(IF begins THEN [r EXCEPT !.alone = TRUE, !.pre = Snapshot] ELSE r,
                     result)
  /\ failed' = (failed \/ result \in PersistErrors)

Access(r) == [r EXCEPT !.accesses = @ + 1]

\* ------------------------------------------------------------ enrollment
\* Mutant of EnrollAtomic: the push without the includes test.
EnrollAtomicAlwaysPush(arr, id) == "push"

\* if (!arr.includes(id)) arr.push(id): the atomic operation left on the array.
EnrollAtomic(arr, id) == IF ArrIncludes(arr, id) THEN "none" ELSE "push"

\* enrollStudent, up to the first await: the gate, then Student.findById.
enrollStudentBegin(p, sid, cid, header) ==
  /\ req[p] = Idle
  /\ LET r == NewReq(p, "enrollStudent", sid, cid, Null, header) IN
     IF ~Authenticated(r.user)
     THEN Complete(p, r, "UNAUTHENTICATED", TRUE)
     ELSE Continue(p, [Access(r) EXCEPT !.pc = "findCourse", !.doc = students[sid]], TRUE)
  /\ UNCHANGED <<storeVars, authVars, query>>

\* Course.findById, the Invalid IDs check, the two includes/push, and the
\* call of student.save().
enrollStudentFindCourse(p) ==
  /\ req[p] # Idle /\ req[p].op = "enrollStudent" /\ req[p].pc = "findCourse"
  /\ LET r == Access(req[p])
         course == courses[r.cid] IN
     IF r.doc = NoDoc \/ course = NoDoc
     THEN Complete(p, r, "Invalid IDs", FALSE)
     ELSE Continue(p, [r EXCEPT !.pc = "saveStudent", !.doc = NoDoc,
                         !.satomic = EnrollAtomic(r.doc.courses, r.cid),
                         !.catomic = EnrollAtomic(course.students, r.sid)], FALSE)
  /\ UNCHANGED <<storeVars, authVars, query>>

\* unenrollStudent, up to the first await.
unenrollStudentBegin(p, sid, cid, header) ==
  /\ req[p] = Idle
  /\ LET r == NewReq(p, "unenrollStudent", sid, cid, Null, header) IN
     IF ~Authenticated(r.user)
     THEN Complete(p, r, "UNAUTHENTICATED", TRUE)
     ELSE Continue(p, [Access(r) EXCEPT !.pc = "findCourse", !.doc = students[sid]], TRUE)
  /\ UNCHANGED <<storeVars, authVars, query>>

\* Course.findById, the Invalid IDs check, the two pulls (recorded whether
\* or not the id is there), and the call of student.save().
unenrollStudentFindCourse(p) ==
  /\ req[p] # Idle /\ req[p].op = "unenrollStudent" /\ req[p].pc = "findCourse"
  /\ LET r == Access(req[p])
         course == courses[r.cid] IN
     IF r.doc = NoDoc \/ course = NoDoc
     THEN Complete(p, r, "Invalid IDs", FALSE)
     ELSE Continue(p, [r EXCEPT !.pc = "saveStudent", !.doc = NoDoc,
                         !.satomic = "pull", !.catomic = "pull"], FALSE)
  /\ UNCHANGED <<storeVars, authVars, query>>

\* await student.save(), of enrollStudent and unenrollStudent alike.
saveStudent(p) ==
  /\ req[p] # Idle /\ req[p].pc = "saveStudent"
  /\ LET r == Access(req[p]) IN
     IF students[r.sid] = NoDoc
     THEN /\ Complete(p, r, "DocumentNotFoundError", FALSE)
          /\ UNCHANGED students
     ELSE /\ students' = [students EXCEPT ![r.sid].courses =
                            ApplyAtomic(@, r.satomic, r.cid)]
          /\ Continue(p, [r EXCEPT !.pc = "saveCourse"], FALSE)
  /\ UNCHANGED <<courses, usedS, usedC, authVars, query>>

\* await course.save(), then the return of student.populate("courses").
saveCourse(p) ==
  /\ req[p] # Idle /\ req[p].pc = "saveCourse"
  /\ LET r == Access(req[p]) IN
     IF courses[r.cid] = NoDoc
     THEN /\ Complete(p, r, "DocumentNotFoundError", FALSE)
          /\ UNCHANGED courses
     ELSE /\ courses' = [courses EXCEPT ![r.cid].students =
                           ApplyAtomic(@, r.catomic, r.sid)]
          /\ Complete(p, r, "ok", FALSE)
  /\ UNCHANGED <<students, usedS, usedC, authVars, query>>

\* ------------------------------------------------------------ inputs
\* StudentInput / StudentUpdateInput: every field optional.  CourseInput has
\* all fields; CourseUpdateInput has every field optional.
Ages == {15, 16}
CreditValues == {0, 6, 7}
DefaultEmail == <<"a", "@", "x">>
DefaultCode == <<"c", "s", "1">>

StudentInputs ==
  { i \in [hasEmail : BOOLEAN, email : Emails \ {<<"b", "@", "x">>},
           hasAge : BOOLEAN, age : Ages] :
      /\ (~i.hasEmail => i.email = DefaultEmail)
      /\ (~i.hasAge => i.age = MinAge) }
CourseInputs == [hasCode : {TRUE}, code : Codes, hasCredits : {TRUE}, credits : CreditValues]
CourseUpdateInputs ==
  { i \in [hasCode : BOOLEAN, code : Codes, hasCredits : BOOLEAN, credits : CreditValues] :
      /\ (~i.hasCode => i.code = DefaultCode)
      /\ (~i.hasCredits => i.credits = MinCredits) }

\* ------------------------------------------------------------ schemas
\* studentSchema: email required, age required with min 16.
StudentSchemaValid(input) == input.hasEmail /\ input.hasAge /\ input.age >= MinAge
\* courseSchema: code required, credits required with min 1, max 6.
CourseSchemaValid(input) ==
  input.hasCode /\ input.hasCredits /\ input.credits >= MinCredits /\ input.credits <= MaxCredits

\* Student.findOne({ email: /^email$/i }) finds a document.
StudentEmailExists(email) ==
  \E s \in StudentDocs : toLowerCase(students[s].email) = toLowerCase(email)
\* Course.findOne({ code: /^code$/i }) finds a document.
CourseCodeExists(code) ==
  \E c \in CourseDocs : toLowerCase(courses[c].code) = toLowerCase(code)

\* The unique indexes (unique: true) compare exactly.
StudentEmailTaken(email, except) ==
  \E s \in StudentDocs \ {except} : students[s].email = email
CourseCodeTaken(code, except) ==
  \E c \in CourseDocs \ {except} : courses[c].code = code

InFlight(op) == Cardinality({ q \in Procs : req[q] # Idle /\ req[q].op = op })

\* ------------------------------------------------------------ students
\* addStudent up to the save: the gate, the two input checks, and
\* Student.findOne with the check of its result.
addStudentBegin(p, input, header) ==
  /\ req[p] = Idle
  /\ usedS + InFlight("addStudent") < MaxStudents
  /\ LET r == NewReq(p, "addStudent", 0, 0, input, header) IN
     IF ~Authenticated(r.user) THEN Complete(p, r, "UNAUTHENTICATED", TRUE)
     ELSE IF ~input.hasEmail THEN Complete(p, r, "TypeError", TRUE)
     ELSE IF ~includes(input.email, "@") THEN Complete(p, r, "Invalid email", TRUE)
     ELSE IF input.hasAge /\ input.age < MinAge
          THEN Complete(p, r, "Student must be >= 16", TRUE)
     ELSE IF StudentEmailExists(input.email)
          THEN Complete(p, Access(r), "Email already exists", TRUE)
     ELSE Continue(p, [Access(r) EXCEPT !.pc = "insertStudent"], TRUE)
  /\ UNCHANGED <<storeVars, authVars, query>>

\* new Student(input).save(): schema validation, then the insert.
addStudentSave(p) ==
  /\ req[p] # Idle /\ req[p].pc = "insertStudent"
  /\ LET r == Access(req[p])
         id == usedS + 1 IN
     IF ~StudentSchemaValid(r.input)
     THEN /\ Complete(p, r, "ValidationError", FALSE)
          /\ UNCHANGED <<students, usedS>>
     ELSE IF StudentEmailTaken(r.input.email, 0)
     THEN /\ Complete(p, r, "E11000 duplicate key", FALSE)
          /\ UNCHANGED <<students, usedS>>
     ELSE /\ students' = [students EXCEPT ![id] =
                            [email |-> r.input.email, age |-> r.input.age, courses |-> <<>>]]
          /\ usedS' = id
          /\ Complete(p, [r EXCEPT !.sid = id], "ok", FALSE)
  /\ UNCHANGED <<courses, usedC, authVars, query>>

\* updateStudent: the gate, the email check, and findByIdAndUpdate, which
\* sets the given fields and runs no schema validator.
updateStudent(p, id, input, header) ==
  /\ req[p] = Idle
  /\ LET r == NewReq(p, "updateStudent", id, 0, input, header) IN
     IF ~Authenticated(r.user)
     THEN Complete(p, r, "UNAUTHENTICATED", TRUE) /\ UNCHANGED students
     ELSE IF input.hasEmail /\ ~includes(input.email, "@")
     THEN Complete(p, r, "Invalid email", TRUE) /\ UNCHANGED students
     ELSE IF students[id] = NoDoc
     THEN Complete(p, Access(r), "Student not found", TRUE) /\ UNCHANGED students
     ELSE IF input.hasEmail /\ StudentEmailTaken(input.email, id)
     THEN Complete(p, Access(r), "E11000 duplicate key", TRUE) /\ UNCHANGED students
     ELSE /\ students' = [students EXCEPT
                            ![id].email = IF input.hasEmail THEN input.email ELSE @,
                            ![id].age = IF input.hasAge THEN input.age ELSE @]
          /\ Complete(p, Access(r), "ok", TRUE)
  /\ UNCHANGED <<courses, usedS, usedC, authVars, query>>

\* deleteStudent up to the bulk pull: the gate and Student.findById.
deleteStudentBegin(p, id, header) ==
  /\ req[p] = Idle
  /\ LET r == NewReq(p, "deleteStudent", id, 0, Null, header) IN
     IF ~Authenticated(r.user) THEN Complete(p, r, "UNAUTHENTICATED", TRUE)
     ELSE IF students[id] = NoDoc THEN Complete(p, Access(r), "false", TRUE)
     ELSE Continue(p, [Access(r) EXCEPT !.pc = "pullStudent", !.doc = students[id]], TRUE)
  /\ UNCHANGED <<storeVars, authVars, query>>

\* Mutant of PullFilter: only the documents the deleted one lists itself.
PullFilterOwn(coll, own) == { d \in DOMAIN coll : coll[d] # NoDoc /\ ArrIncludes(own, d) }

\* The documents the filter {} of the two updateMany calls selects.
PullFilter(coll, own) == { d \in DOMAIN coll : coll[d] # NoDoc }

\* Course.updateMany({}, { $pull: { students: id } }).
deleteStudentPull(p) ==
  /\ req[p] # Idle /\ req[p].pc = "pullStudent"
  /\ courses' = [c \in CIds |->
                   IF c \notin PullFilter(courses, req[p].doc.courses) THEN courses[c]
                   ELSE [courses[c] EXCEPT !.students = ArrPull(@, req[p].sid)]]
  /\ Continue(p, [Access(req[p]) EXCEPT !.pc = "deleteStudent", !.doc = NoDoc], FALSE)
  /\ UNCHANGED <<students, usedS, usedC, authVars, query>>

\* student.deleteOne(), then return true.
deleteStudentDeleteOne(p) ==
  /\ req[p] # Idle /\ req[p].pc = "deleteStudent"
  /\ students' = [students EXCEPT ![req[p].sid] = NoDoc]
  /\ Complete(p, Access(req[p]), "true", FALSE)
  /\ UNCHANGED <<courses, usedS, usedC, authVars, query>>

\* ------------------------------------------------------------ courses
\* addCourse up to the save: the gate, the credits check, and Course.findOne
\* with the check of its result.
addCourseBegin(p, input, header) ==
  /\ req[p] = Idle
  /\ usedC + InFlight("addCourse") < MaxCourses
  /\ LET r == NewReq(p, "addCourse", 0, 0, input, header) IN
     IF ~Authenticated(r.user) THEN Complete(p, r, "UNAUTHENTICATED", TRUE)
     ELSE IF input.credits < MinCredits \/ input.credits > MaxCredits
          THEN Complete(p, r, "Credits must be between 1 and 6", TRUE)
     ELSE IF CourseCodeExists(input.code)
          THEN Complete(p, Access(r), "Course code already exists", TRUE)
     ELSE Continue(p, [Access(r) EXCEPT !.pc = "insertCourse"], TRUE)
  /\ UNCHANGED <<storeVars, authVars, query>>

\* new Course(input).save(): schema validation, then the insert.
addCourseSave(p) ==
  /\ req[p] # Idle /\ req[p].pc = "insertCourse"
  /\ LET r == Access(req[p])
         id == usedC + 1 IN
     IF ~CourseSchemaValid(r.input)
     THEN /\ Complete(p, r, "ValidationError", FALSE)
          /\ UNCHANGED <<courses, usedC>>
     ELSE IF CourseCodeTaken(r.input.code, 0)
     THEN /\ Complete(p, r, "E11000 duplicate key", FALSE)
          /\ UNCHANGED <<courses, usedC>>
     ELSE /\ courses' = [courses EXCEPT ![id] =
                           [code |-> r.input.code, credits |-> r.input.credits,
                            students |-> <<>>]]
          /\ usedC' = id
          /\ Complete(p, [r EXCEPT !.cid = id], "ok", FALSE)
  /\ UNCHANGED <<students, usedS, authVars, query>>

\* updateCourse: the gate and findByIdAndUpdate, which sets the given fields
\* and runs no schema validator.
updateCourse(p, id, input, header) ==
  /\ req[p] = Idle
  /\ LET r == NewReq(p, "updateCourse", 0, id, input, header) IN
     IF ~Authenticated(r.user)
     THEN Complete(p, r, "UNAUTHENTICATED", TRUE) /\ UNCHANGED courses
     ELSE IF courses[id] = NoDoc
     THEN Complete(p, Access(r), "Course not found", TRUE) /\ UNCHANGED courses
     ELSE IF input.hasCode /\ CourseCodeTaken(input.code, id)
     THEN Complete(p, Access(r), "E11000 duplicate key", TRUE) /\ UNCHANGED courses
     ELSE /\ courses' = [courses EXCEPT
                           ![id].code = IF input.hasCode THEN input.code ELSE @,
                           ![id].credits = IF input.hasCredits THEN input.credits ELSE @]
          /\ Complete(p, Access(r), "ok", TRUE)
  /\ UNCHANGED <<students, usedS, usedC, authVars, query>>

\* deleteCourse up to the bulk pull: the gate and Course.findById.
deleteCourseBegin(p, id, header) ==
  /\ req[p] = Idle
  /\ LET r == NewReq(p, "deleteCourse", 0, id, Null, header) IN
     IF ~Authenticated(r.user) THEN Complete(p, r, "UNAUTHENTICATED", TRUE)
     ELSE IF courses[id] = NoDoc THEN Complete(p, Access(r), "false", TRUE)
     ELSE Continue(p, [Access(r) EXCEPT !.pc = "pullCourse", !.doc = courses[id]], TRUE)
  /\ UNCHANGED <<storeVars, authVars, query>>

\* Student.updateMany({}, { $pull: { courses: id } }).
deleteCoursePull(p) ==
  /\ req[p] # Idle /\ req[p].pc = "pullCourse"
  /\ students' = [s \in SIds |->
                    IF s \notin PullFilter(students, req[p].doc.students) THEN students[s]
                    ELSE [students[s] EXCEPT !.courses = ArrPull(@, req[p].cid)]]
  /\ Continue(p, [Access(req[p]) EXCEPT !.pc = "deleteCourse", !.doc = NoDoc], FALSE)
  /\ UNCHANGED <<courses, usedS, usedC, authVars, query>>

\* course.deleteOne(), then return true.
deleteCourseDeleteOne(p) ==
  /\ req[p] # Idle /\ req[p].pc = "deleteCourse"
  /\ courses' = [courses EXCEPT ![req[p].cid] = NoDoc]
  /\ Complete(p, Access(req[p]), "true", FALSE)
  /\ UNCHANGED <<students, usedS, usedC, authVars, query>>

\* ------------------------------------------------------------ auth
\* A user of the in-memory list is { email, password: hash }; the id
\* (Date.now().toString()) is read by nothing and left out.
Passwords == { <<"s", "e", "c", "r", "e">>, <<"s", "e", "c", "r", "e", "t">>,
               <<"w", "r", "o", "n", "g", "1">> }

\* bcrypt.hash / bcrypt.compare: compare(p, hash(q)) is true exactly for p = q.
BcryptHash(password) == [bcrypt |-> password]
BcryptCompare(password, hashed) == hashed.bcrypt = password

\* createToken: the claims, signed, valid for 7 days.
createToken(user) == [prefix |-> "", token |-> "valid", email |-> user.email]

\* users.find((u) => u.email.toLowerCase() === email.toLowerCase())
UsersFind(email) ==
  LET hits == { i \in 1..Len(users) : toLowerCase(users[i].email) = toLowerCase(email) }
  IN IF hits = {} THEN Null
     ELSE users[CHOOSE i \in hits : \A k \in hits : i <= k]

AuthOutcome(op, email, password, result) ==
  [op |-> op, email |-> email, password |-> password, result |-> result]

\* signup up to the await of bcrypt.hash: the three checks.
signupBegin(p, email, password) ==
  /\ auth[p] = Idle
  /\ IF UsersFind(email) # Null
     THEN auth' = auth /\ lastAuth' = AuthOutcome("signup", email, password, "Email already exists")
     ELSE IF ~includes(email, "@")
     THEN auth' = auth /\ lastAuth' = AuthOutcome("signup", email, password, "Invalid email")
     ELSE IF Len(password) < MinPasswordLength
     THEN auth' = auth /\ lastAuth' = AuthOutcome("signup", email, password, "Password too short")
     ELSE /\ auth' = [auth EXCEPT ![p] = [pc |-> "hash", op |-> "signup", email |-> email,
                                          password |-> password]]
          /\ lastAuth' = NoLast
  /\ UNCHANGED <<storeVars, req, last, failed, users, query>>

\* signup after the hash: users.push(newUser), createToken, return.
signupPush(p) ==
  /\ auth[p] # Idle /\ auth[p].pc = "hash"
  /\ users' = Append(users, [email |-> auth[p].email,
                             password |-> BcryptHash(auth[p].password)])
  /\ auth' = [auth EXCEPT ![p] = Idle]
  /\ lastAuth' = AuthOutcome("signup", auth[p].email, auth[p].password, "ok")
  /\ UNCHANGED <<storeVars, req, last, failed, query>>

\* login up to the await of bcrypt.compare: the lookup.
loginBegin(p, email, password) ==
  /\ auth[p] = Idle
  /\ LET user == UsersFind(email) IN
     IF user = Null
     THEN auth' = auth /\ lastAuth' = AuthOutcome("login", email, password, "User not found")
     ELSE /\ auth' = [auth EXCEPT ![p] = [pc |-> "compare", op |-> "login", email |-> email,
                                          password |-> password, user |-> user]]
          /\ lastAuth' = NoLast
  /\ UNCHANGED <<storeVars, req, last, failed, users, query>>

\* login after the compare: Invalid password, or createToken and return.
loginCompare(p) ==
  /\ auth[p] # Idle /\ auth[p].pc = "compare"
  /\ auth' = [auth EXCEPT ![p] = Idle]
  /\ lastAuth' = AuthOutcome("login", auth[p].email, auth[p].password,
                             IF BcryptCompare(auth[p].password, auth[p].user.password)
                             THEN "ok" ELSE "Invalid password")
  /\ UNCHANGED <<storeVars, req, last, failed, users, query>>

\* ------------------------------------------------------------ queries
NoQuery == [noquery |-> TRUE]
Min(a, b) == IF a <= b THEN a ELSE b
Abs(a) == IF a < 0 THEN 0 - a ELSE a

\* options?.limit || 10 and options?.offset || 0: the default replaces an
\* absent field and a zero alike.
OrDefault(has, value, default) == IF has /\ value # 0 THEN value ELSE default

\* const limit = Math.min(options?.limit || 10, 50)
QueryLimit(options) == Min(OrDefault(options.hasLimit, options.limit, DefaultLimit), MaxLimit)
\* const offset = options?.offset || 0
QueryOffset(options) == OrDefault(options.hasOffset, options.offset, 0)

\* The cursor's skip(offset).limit(limit) over n matching documents: the store
\* takes a negative limit as its absolute value (one batch), 0 as no limit.
CursorSize(n, offset, limit) ==
  LET rest == IF n > offset THEN n - offset ELSE 0
  IN IF limit = 0 THEN rest ELSE Min(rest, Abs(limit))

\* getAllStudents / getAllCourses: `matching` documents satisfy the filter.
getAll(op, options, matching) ==
  /\ query = NoQuery
  /\ query' = [op |-> op, options |-> options, matching |-> matching,
               limit |-> QueryLimit(options),
               returned |-> CursorSize(matching, QueryOffset(options), QueryLimit(options))]
  /\ UNCHANGED <<storeVars, req, last, failed, authVars>>

getAllStudents(options, matching) == getAll("getAllStudents", options, matching)
getAllCourses(options, matching) == getAll("getAllCourses", options, matching)

\* The response is sent.
queryDone ==
  /\ query # NoQuery
  /\ query' = NoQuery
  /\ UNCHANGED <<storeVars, req, last, failed, authVars>>

\* ------------------------------------------------------------ specification
Init ==
  /\ students = [s \in SIds |-> NoDoc]
  /\ courses = [c \in CIds |-> NoDoc]
  /\ usedS = 0
  /\ usedC = 0
  /\ req = [p \in Procs |-> Idle]
  /\ last = NoLast
  /\ failed = FALSE
  /\ users = <<>>
  /\ auth = [p \in Procs |-> Idle]
  /\ lastAuth = NoLast
  /\ query = NoQuery

\* The relation specification: concurrent add, delete, enroll and unenroll
\* requests of an authenticated caller.  The adds create valid documents, the
\* k-th added Student (Course) carrying the k-th email (code): the keys are
\* interchangeable, so fixing their order loses no behaviour of the relation.
\* (updateStudent and updateCourse cannot touch the relation arrays or the
\* existence of a document: their inputs have no such field.)
Letters == <<"a", "b", "c", "d", "e">>
Digits == <<"1", "2", "3", "4", "5">>
KthEmail(k) == <<Letters[k], "@", "x">>
KthCode(k) == <<"c", "s", Digits[k]>>
AddStudentInputs ==
  { [hasEmail |-> TRUE, email |-> KthEmail(usedS + InFlight("addStudent") + 1),
     hasAge |-> TRUE, age |-> MinAge] }
AddCourseInputs ==
  { [hasCode |-> TRUE, code |-> KthCode(usedC + InFlight("addCourse") + 1),
     hasCredits |-> TRUE, credits |-> MaxCredits] }
ValidHeader == [prefix |-> "Bearer ", token |-> "valid"]

Next ==
  \E p \in Procs :
    \/ \E s \in SIds, c \in CIds : enrollStudentBegin(p, s, c, ValidHeader)
    \/ enrollStudentFindCourse(p)
    \/ \E s \in SIds, c \in CIds : unenrollStudentBegin(p, s, c, ValidHeader)
    \/ unenrollStudentFindCourse(p)
    \/ saveStudent(p)
    \/ saveCourse(p)
    \/ \E i \in AddStudentInputs : addStudentBegin(p, i, ValidHeader)
    \/ addStudentSave(p)
    \/ \E s \in SIds : deleteStudentBegin(p, s, ValidHeader)
    \/ deleteStudentPull(p)
    \/ deleteStudentDeleteOne(p)
    \/ \E i \in AddCourseInputs : addCourseBegin(p, i, ValidHeader)
    \/ addCourseSave(p)
    \/ \E c \in CIds : deleteCourseBegin(p, c, ValidHeader)
    \/ deleteCoursePull(p)
    \/ deleteCourseDeleteOne(p)

Spec == Init /\ [][Next]_vars

\* The gate specification: every guarded mutation with every kind of
\* Authorization header, one request at a time.
UpdateStudentInputs ==
  { [hasEmail |-> FALSE, email |-> DefaultEmail, hasAge |-> TRUE, age |-> MinAge + 1] }
UpdateCourseInputs ==
  { [hasCode |-> FALSE, code |-> DefaultCode, hasCredits |-> TRUE, credits |-> MinCredits] }

NextGate ==
  \E p \in Procs :
    \/ /\ OthersIdle(p)
       /\ \E h \in Headers :
            \/ \E s \in SIds, c \in CIds : enrollStudentBegin(p, s, c, h)
            \/ \E s \in SIds, c \in CIds : unenrollStudentBegin(p, s, c, h)
            \/ \E i \in AddStudentInputs : addStudentBegin(p, i, h)
            \/ \E s \in SIds, i \in UpdateStudentInputs : updateStudent(p, s, i, h)
            \/ \E s \in SIds : deleteStudentBegin(p, s, h)
            \/ \E i \in AddCourseInputs : addCourseBegin(p, i, h)
            \/ \E c \in CIds, i \in UpdateCourseInputs : updateCourse(p, c, i, h)
            \/ \E c \in CIds : deleteCourseBegin(p, c, h)
    \/ enrollStudentFindCourse(p)
    \/ unenrollStudentFindCourse(p)
    \/ saveStudent(p)
    \/ saveCourse(p)
    \/ addStudentSave(p)
    \/ deleteStudentPull(p)
    \/ deleteStudentDeleteOne(p)
    \/ addCourseSave(p)
    \/ deleteCoursePull(p)
    \/ deleteCourseDeleteOne(p)

SpecGate == Init /\ [][NextGate]_vars

\* The field specification: add and update requests of an authenticated
\* caller over every input, one request at a time.
NextFields ==
  \E p \in Procs :
    \/ /\ OthersIdle(p)
       /\ \/ \E i \in StudentInputs : addStudentBegin(p, i, ValidHeader)
          \/ \E s \in SIds, i \in StudentInputs : updateStudent(p, s, i, ValidHeader)
          \/ \E i \in CourseInputs : addCourseBegin(p, i, ValidHeader)
          \/ \E c \in CIds, i \in CourseUpdateInputs : updateCourse(p, c, i, ValidHeader)
    \/ addStudentSave(p)
    \/ addCourseSave(p)

SpecFields == Init /\ [][NextFields]_vars

\* The auth specification: concurrent signup and login requests.
NextAuth ==
  \E p \in Procs :
    \/ \E e \in Emails, pw \in Passwords : signupBegin(p, e, pw)
    \/ signupPush(p)
    \/ \E e \in Emails, pw \in Passwords : loginBegin(p, e, pw)
    \/ loginCompare(p)

SpecAuth == Init /\ [][NextAuth]_vars

\* The query specification: the two list queries over every options.limit,
\* a few offsets, and every number of matching documents up to MaxMatching.
LimitValues == (0 - MaxMatching)..MaxMatching
OptionsInputs ==
  { o \in [hasLimit : BOOLEAN, limit : LimitValues, hasOffset : BOOLEAN, offset : {0, 1}] :
      /\ (~o.hasLimit => o.limit = 0)
      /\ (~o.hasOffset => o.offset = 0) }

NextQuery ==
  \/ /\ query = NoQuery
     /\ \E o \in OptionsInputs, n \in 0..MaxMatching : getAllStudents(o, n)
  \/ /\ query = NoQuery
     /\ \E o \in OptionsInputs, n \in 0..MaxMatching : getAllCourses(o, n)
  \/ queryDone

SpecQuery == Init /\ [][NextQuery]_vars

\* ------------------------------------------------------------ relation claims
Enrolled(snap, s, c) ==
  /\ snap.students[s] # NoDoc /\ snap.courses[c] # NoDoc
  /\ ArrIncludes(snap.students[s].courses, c)
  /\ ArrIncludes(snap.courses[c].students, s)
NotEnrolled(snap, s, c) ==
  /\ snap.students[s] # NoDoc /\ snap.courses[c] # NoDoc
  /\ ~ArrIncludes(snap.students[s].courses, c)
  /\ ~ArrIncludes(snap.courses[c].students, s)
BothExist(snap, s, c) == snap.students[s] # NoDoc /\ snap.courses[c] # NoDoc
Max(a, b) == IF a >= b THEN a ELSE b

RelationOps == {"enrollStudent", "unenrollStudent", "deleteStudent", "deleteCourse"}
NoRelationOpInProgress == \A p \in Procs : req[p] = Idle \/ req[p].op \notin RelationOps
Quiescent == \A p \in Procs : req[p] = Idle

\* The last step completed `op`, which ran alone from the store last.pre.
RanAlone(op) == last # NoLast /\ last.op = op /\ last.alone

\* C1: whenever no enrollStudent, unenrollStudent, deleteStudent or
\* deleteCourse request is in progress and no persist call has failed, every
\* stored Student s and Course c satisfy: c in s.courses iff s in c.students.
C1_BidirectionalRelation ==
  (NoRelationOpInProgress /\ ~failed) =>
    \A s \in StudentDocs, c \in CourseDocs :
      ArrIncludes(students[s].courses, c) <=> ArrIncludes(courses[c].students, s)

C3_WitnessNoOp ==
  /\ RanAlone("unenrollStudent") /\ last.result = "ok"
  /\ NotEnrolled(last.pre, last.sid, last.cid)

\* C6: after a deleteStudent(id) that ran alone and returned true, no Course
\* lists id; after a deleteCourse(id) that ran alone and returned true, no
\* Student lists id.
C6_DeleteRepairsDrift ==
  /\ (RanAlone("deleteStudent") /\ last.result = "true") =>
       /\ students[last.sid] = NoDoc
       /\ \A c \in CourseDocs : ~ArrIncludes(courses[c].students, last.sid)
  /\ (RanAlone("deleteCourse") /\ last.result = "true") =>
       /\ courses[last.cid] = NoDoc
       /\ \A s \in StudentDocs : ~ArrIncludes(students[s].courses, last.cid)

\* Witness of C6: a deleteStudent that ran alone from a drifted store (a Course
\* listed the Student, whose own courses array did not list that Course) has
\* just returned true.
C6_Witness ==
  /\ RanAlone("deleteStudent") /\ last.result = "true"
  /\ \E c \in CIds :
       /\ last.pre.courses[c] # NoDoc
       /\ ArrIncludes(last.pre.courses[c].students, last.sid)
       /\ ~ArrIncludes(last.pre.students[last.sid].courses, c)

\* C9: no Student's courses array and no Course's students array holds the
\* same id twice.
C9_SetSemantics ==
  /\ \A s \in StudentDocs, c \in CIds : Count(students[s].courses, c) <= 1
  /\ \A c \in CourseDocs, s \in SIds : Count(courses[c].students, s) <= 1

\* C10: whenever no mutation is in progress, every id in a Course's students
\* array is a stored Student and every id in a Student's courses array is a
\* stored Course.
C10_NoDanglingReferences ==
  Quiescent =>
    /\ \A c \in CourseDocs, s \in SIds :
         ArrIncludes(courses[c].students, s) => students[s] # NoDoc
    /\ \A s \in StudentDocs, c \in CIds :
         ArrIncludes(students[s].courses, c) => courses[c] # NoDoc

\* ------------------------------------------------------------ gate claim
\* C5: a guarded mutation whose caller identity is null (no header, or a
\* token that does not verify) ends with UNAUTHENTICATED, having made no store
\* access and leaving the Student and Course collections as they were; no
\* request of a null caller is ever past the gate.
C5_GateRejectsNull ==
  /\ \A p \in Procs : req[p] # Idle => req[p].user # Null
  /\ (last # NoLast /\ (last.header = NoHeader \/ last.header.token # "valid"
                        \/ last.user = Null)) =>
       /\ last.result = "UNAUTHENTICATED"
       /\ last.accesses = 0
       /\ Snapshot = last.pre

\* Witness of C5: a deleteStudent of a stored Student, sent with an expired
\* token, has just been rejected.
C5_Witness ==
  /\ last # NoLast /\ last.op = "deleteStudent" /\ last.header.token = "expired"
  /\ last.result = "UNAUTHENTICATED"
  /\ students[last.sid] # NoDoc

\* ------------------------------------------------------------ field claim
\* C7: every stored Course has credits in 1..6 and every stored Student has
\* age >= 16; an addCourse with credits 7 fails and stores nothing, and an
\* addCourse with credits 6 and a fresh code, run alone, succeeds.
C7_FieldRanges ==
  /\ \A c \in CourseDocs : courses[c].credits \in MinCredits..MaxCredits
  /\ \A s \in StudentDocs : students[s].age >= MinAge
  /\ (last # NoLast /\ last.op = "addCourse" /\ last.input.credits = 7) =>
       (last.result # "ok" /\ last.alone /\ Snapshot = last.pre)
  /\ (RanAlone("addCourse") /\ last.input.credits = 6
        /\ \A c \in CIds : last.pre.courses[c] # NoDoc =>
              toLowerCase(last.pre.courses[c].code) # toLowerCase(last.input.code)) =>
       last.result = "ok"

\* ------------------------------------------------------------ auth claim
\* C8: no two stored identities have emails equal ignoring case.
C8_EmailUnique ==
  \A i, k \in 1..Len(users) :
    i # k => toLowerCase(users[i].email) # toLowerCase(users[k].email)

\* ------------------------------------------------------------ query claim
\* C4: a list query returns at most 50 entities, whatever options.limit is,
\* and the limit handed to the store is 10 when options.limit is absent.
C4_LimitCeiling ==
  query # NoQuery =>
    /\ query.returned <= MaxLimit
    /\ (~query.options.hasLimit => query.limit = DefaultLimit)

====
